---------------------------- MODULE Spec2Model ----------------------------
(***************************************************************************)
(* A model of ustl's memlink (memlink.cc): a non-owning, mutable view over *)
(* a block of memory, layered on the read-only view cmemlink.              *)
(*                                                                         *)
(* Memory is a byte array indexed by address; address NULL is no byte.     *)
(* A view is the record [cdata, size, data]: cdata and size are the        *)
(* fields of the cmemlink base, data is memlink::m_Data.  The model is of  *)
(* the diagnostic build (NDEBUG undefined): a failing assert aborts the    *)
(* process (status "assert").  Behaviour the language leaves undefined     *)
(* (memcpy over overlapping regions, a store through a null pointer) ends  *)
(* the run in status "ub" with a nondeterministic choice of outcome.       *)
(***************************************************************************)
EXTENDS Integers, Sequences, FiniteSets, TLC

\* ------------------------------------------------------------- bounds
\* Bytes of memory that views can be linked to: addresses 1..HeapSize.
HeapSize == 4
\* Bytes of the caller's own data (copy sources, fill patterns) above them.
ScratchSize == 2
\* elementSize() of the modelled view type ranges over 1..MaxElementSize.
MaxElementSize == 2

\* ---------------------------------------------------------- constants
NULL == 0
\* Width in bytes of the serialized length field read by `is >> n`.
SizeWidth == 4
\* Boundary that istream::align() moves the cursor to.
StreamAlign == 4
\* Radix of one byte of the length field.
ByteRadix == 256

Heap == 1..HeapSize
Addr == 1..(HeapSize + ScratchSize)
Views == 1..2

VARIABLES
    mem,          \* the memory: a byte for every address of Addr
    v,            \* the views: [Views -> [cdata, size, data]]
    elementSize,  \* what elementSize() returns for the view type
    is,           \* the istream of the last read: [buf, pos]
    status,       \* "ok", "assert" (assertion failed) or "ub"
    op,           \* the operation in progress and its arguments, or "idle"
    old,          \* memory and views as they were when that operation began
    older         \* the call that returned before it, if the caller kept it

vars == <<mem, v, elementSize, is, status, op, old, older>>

\* --------------------------------------------------- helpers on memory
Min(a, b) == IF a < b THEN a ELSE b

\* The n bytes of m at [src, src+n).
Load(m, src, n) == [i \in 1..n |-> m[src + i - 1]]

\* m with the bytes of sequence bytes stored at [dst, dst+Len(bytes)).
Store(m, dst, bytes) ==
    [a \in Addr |-> IF a >= dst /\ a < dst + Len(bytes)
                    THEN bytes[a - dst + 1] ELSE m[a]]

\* Whether [a, a+n) and [b, b+n) share a byte.
Overlap(a, b, n) == n > 0 /\ a < b + n /\ b < a + n

\* memcpy (dst, src, n) over regions that do not overlap.
memcpy(m, dst, src, n) == Store(m, dst, Load(m, src, n))

\* A byte-at-a-time ascending copy: one thing memcpy may do on overlap.
RECURSIVE CopyAscending(_, _, _, _)
CopyAscending(m, dst, src, n) ==
    IF n = 0 THEN m
    ELSE CopyAscending([m EXCEPT ![dst] = m[src]], dst + 1, src + 1, n - 1)

\* A byte-at-a-time descending copy: another thing memcpy may do on overlap.
RECURSIVE CopyDescending(_, _, _, _)
CopyDescending(m, dst, src, n) ==
    IF n = 0 THEN m
    ELSE CopyDescending([m EXCEPT ![dst + n - 1] = m[src + n - 1]], dst, src, n - 1)

\* The outcomes of memcpy: one when the regions are disjoint, several if not.
MemcpyOutcomes(m, dst, src, n) ==
    IF Overlap(dst, src, n)
    THEN {memcpy(m, dst, src, n), CopyAscending(m, dst, src, n),
          CopyDescending(m, dst, src, n)}
    ELSE {memcpy(m, dst, src, n)}

\* memset (dst, c, n)
memset(m, dst, c, n) == Store(m, dst, [i \in 1..n |-> c])

\* rotate (first, middle, last): [middle, last) comes first, then [first, middle).
rotate(m, first, middle, last) ==
    IF first = middle \/ middle = last THEN m
    ELSE Store(m, first,
               Load(m, middle, last - middle) \o Load(m, first, middle - first))

\* ------------------------------------------------ the cmemlink base
cmemlink_init(p, n) == [cdata |-> p, size |-> n, data |-> NULL]
cmemlink_assign(self, l) == [self EXCEPT !.cdata = l.cdata, !.size = l.size]
cmemlink_link(self, p, n) == [self EXCEPT !.cdata = p, !.size = n]
cmemlink_unlink(self) == [self EXCEPT !.cdata = NULL, !.size = 0]
cmemlink_swap(a, b) ==
    <<[a EXCEPT !.cdata = b.cdata, !.size = b.size],
      [b EXCEPT !.cdata = a.cdata, !.size = a.size]>>
resize(self, n) == [self EXCEPT !.size = n]

\* (p, n) pairs naming a block inside the memory, or the empty block at NULL.
Blocks ==
    {<<NULL, 0>>} \cup {b \in Heap \X (0..HeapSize) : b[1] + b[2] <= HeapSize + 1}

\* Immutable views (const cmemlink&) that a memlink can be built from.
CmemlinkValues == {cmemlink_init(b[1], b[2]) : b \in Blocks}

\* --------------------------------------------- memlink: the descriptor
memlink_default == [cmemlink_init(NULL, 0) EXCEPT !.data = NULL]
memlink_const(p, n) == [cmemlink_init(p, n) EXCEPT !.data = NULL]
memlink_ptr(p, n) == [cmemlink_init(p, n) EXCEPT !.data = p]
memlink_from_cmemlink(l) == [cmemlink_init(l.cdata, l.size) EXCEPT !.data = NULL]
memlink_from_memlink(l) == [cmemlink_init(l.cdata, l.size) EXCEPT !.data = l.data]
\* Mutant of assign_cmemlink: m_Data is left as it was.
assign_cmemlink_keep(self, l) == cmemlink_assign(self, l)

assign_cmemlink(self, l) == [cmemlink_assign(self, l) EXCEPT !.data = NULL]
assign_memlink(self, l) == [cmemlink_assign(self, l) EXCEPT !.data = l.data]
swap(a, b) ==
    <<[cmemlink_swap(a, b)[1] EXCEPT !.data = b.data],
      [cmemlink_swap(a, b)[2] EXCEPT !.data = a.data]>>
link(self, p, n) == [cmemlink_link(self, p, n) EXCEPT !.data = p]
unlink(self) == [cmemlink_unlink(self) EXCEPT !.data = NULL]

\* ------------------------------------------------------- the istream
\* The length n as `os << n` writes it: SizeWidth bytes, least significant first.
RECURSIVE Power(_, _)
Power(b, e) == IF e = 0 THEN 1 ELSE b * Power(b, e - 1)

EncodeSize(n) == [j \in 1..SizeWidth |-> (n \div Power(ByteRadix, j - 1)) % ByteRadix]

\* Align (n, grain): n rounded up to a multiple of grain.
Align(n, grain) == ((n + grain - 1) \div grain) * grain

\* A stream holding [length][raw bytes][padding to alignment], cursor at 0.
StreamOf(bytes) ==
    [buf |-> EncodeSize(Len(bytes)) \o bytes \o
             [j \in 1..(Align(SizeWidth + Len(bytes), StreamAlign)
                          - (SizeWidth + Len(bytes))) |-> 0],
     pos |-> 0]

\* is >> n: the value of the length field at the cursor.
RECURSIVE DecodeSize(_, _)
DecodeSize(s, j) ==
    IF j > SizeWidth THEN 0
    ELSE s.buf[s.pos + j] * Power(ByteRadix, j - 1) + DecodeSize(s, j + 1)

\* is.read (p, n): the n bytes at the cursor.
istream_bytes(s, n) == [j \in 1..n |-> s.buf[s.pos + j]]
\* is.skip (n), and the cursor movement of is >> n and of is.read (p, n).
istream_skip(s, n) == [s EXCEPT !.pos = s.pos + n]
\* is.align()
istream_align(s) == [s EXCEPT !.pos = Align(s.pos, StreamAlign)]

\* ------------------------------------------------- memlink: the data
\* Mutant of bytesToRead: the serialized length, whatever the view's size.
bytesToReadNoMin(n, size) == n

\* btr in memlink::read
bytesToRead(n, size) == Min(n, size)

\* Mutant of skipCount: the bytes that did not fit are not skipped.
skipCountNone(n, btr) == 0

\* The bytes is.skip is asked to pass over in memlink::read
skipCount(n, btr) == n - btr

\* Mutant of read: the view is resized to the serialized length n.
read_resize_n(m, self, s) ==
    LET n == DecodeSize(s, 1)
        s1 == istream_skip(s, SizeWidth)
        btr == bytesToRead(n, self.size)
        s2 == istream_align(istream_skip(istream_skip(s1, btr), skipCount(n, btr)))
    IN  IF n % elementSize # 0
        THEN {[status |-> "assert", mem |-> m, view |-> self, is |-> s1]}
        ELSE IF self.data = NULL /\ btr > 0
        THEN {[status |-> "ub", mem |-> m, view |-> self, is |-> s1],
              [status |-> "ub", mem |-> m, view |-> resize(self, n), is |-> s2]}
        ELSE {[status |-> "ok", mem |-> Store(m, self.data, istream_bytes(s1, btr)),
               view |-> resize(self, n), is |-> s2]}

\* memlink::read.  The outcomes are records [status, mem, view, is].
read(m, self, s) ==
    LET n == DecodeSize(s, 1)
        s1 == istream_skip(s, SizeWidth)
        btr == bytesToRead(n, self.size)
        s2 == istream_align(istream_skip(istream_skip(s1, btr), skipCount(n, btr)))
    IN  IF n % elementSize # 0
        THEN {[status |-> "assert", mem |-> m, view |-> self, is |-> s1]}
        ELSE IF self.data = NULL /\ btr > 0
        THEN \* a store through the null pointer: a fault, or a stray write
             {[status |-> "ub", mem |-> m, view |-> self, is |-> s1],
              [status |-> "ub", mem |-> m, view |-> resize(self, btr), is |-> s2]}
        ELSE {[status |-> "ok", mem |-> Store(m, self.data, istream_bytes(s1, btr)),
               view |-> resize(self, btr), is |-> s2]}

\* memlink::copy.  The outcomes are records [status, mem].
copy(m, self, k, p, n) ==
    IF \/ ~(self.data # NULL \/ n = 0)
       \/ ~(p # NULL \/ n = 0)
       \/ ~(k >= 0 /\ k + n <= self.size)
       \/ n % elementSize # 0
    THEN {[status |-> "assert", mem |-> m]}
    ELSE IF p # NULL /\ n # 0 /\ p # self.data
    THEN {[status |-> IF Overlap(self.data + k, p, n) THEN "ub" ELSE "ok", mem |-> mm] :
             mm \in MemcpyOutcomes(m, self.data + k, p, n)}
    ELSE {[status |-> "ok", mem |-> m]}

\* Mutant of FillLoop: start is not advanced from one copy to the next.
RECURSIVE FillLoopNoAdvance(_, _, _, _, _)
FillLoopNoAdvance(ms, start, p, elSize, elCount) ==
    IF elCount = 0 THEN ms
    ELSE FillLoopNoAdvance(UNION {MemcpyOutcomes(m, start, p, elSize) : m \in ms},
                           start, p, elSize, elCount - 1)

\* The while loop of memlink::fill, over the set ms of memories reached so far.
RECURSIVE FillLoop(_, _, _, _, _)
FillLoop(ms, start, p, elSize, elCount) ==
    IF elCount = 0 THEN ms
    ELSE FillLoop(UNION {MemcpyOutcomes(m, start, p, elSize) : m \in ms},
                  start + elSize, p, elSize, elCount - 1)

\* Mutant of fill: the assertion on m_Data is missing.
fill_no_null_assert(m, self, k, p, elSize, elCount) ==
    IF \/ ~(k >= 0 /\ k + elSize * elCount <= self.size)
       \/ elSize % elementSize # 0
    THEN {[status |-> "assert", mem |-> m]}
    ELSE IF elSize = 1
    THEN {[status |-> "ok", mem |-> memset(m, self.data + k, m[p], elCount)]}
    ELSE {[status |-> "ok", mem |-> mm] :
             mm \in FillLoop({m}, self.data + k, p, elSize, elCount)}

\* memlink::fill.  The outcomes are records [status, mem].
fill(m, self, k, p, elSize, elCount) ==
    IF \/ ~(self.data # NULL \/ elCount = 0 \/ elSize = 0)
       \/ ~(k >= 0 /\ k + elSize * elCount <= self.size)
       \/ elSize % elementSize # 0
    THEN {[status |-> "assert", mem |-> m]}
    ELSE IF elSize = 1
    THEN {[status |-> "ok", mem |-> memset(m, self.data + k, m[p], elCount)]}
    ELSE {[status |-> IF \E j \in 0..(elCount - 1) :
                            Overlap(self.data + k + j * elSize, p, elSize)
                      THEN "ub" ELSE "ok",
           mem |-> mm] : mm \in FillLoop({m}, self.data + k, p, elSize, elCount)}

\* The assertions shared by memlink::insert and memlink::erase.
ShiftAsserts(self, k, n) ==
    /\ self.data # NULL \/ n = 0
    /\ self.cdata # NULL \/ n = 0
    /\ k >= 0 /\ k + n <= self.size
    /\ n % elementSize = 0
    /\ k % elementSize = 0

\* Mutant of insert: middle is taken n bytes after first, as erase does.
insert_from_front(m, self, k, n) ==
    IF ~ShiftAsserts(self, k, n)
    THEN {[status |-> "assert", mem |-> m]}
    ELSE LET first == self.data + k
             last == self.data + self.size
             middle == first + n
         IN  {[status |-> "ok", mem |-> rotate(m, first, middle, last)]}

\* memlink::insert.  The outcomes are records [status, mem].
insert(m, self, k, n) ==
    IF ~ShiftAsserts(self, k, n)
    THEN {[status |-> "assert", mem |-> m]}
    ELSE LET first == self.data + k
             last == self.data + self.size
             middle == last - n
         IN  {[status |-> "ok", mem |-> rotate(m, first, middle, last)]}

\* Mutant of erase: middle is taken n bytes before last, as insert does.
erase_from_back(m, self, k, n) ==
    IF ~ShiftAsserts(self, k, n)
    THEN {[status |-> "assert", mem |-> m]}
    ELSE LET first == self.data + k
             last == self.data + self.size
             middle == last - n
         IN  {[status |-> "ok", mem |-> rotate(m, first, middle, last)]}

\* memlink::erase.  The outcomes are records [status, mem].
erase(m, self, k, n) ==
    IF ~ShiftAsserts(self, k, n)
    THEN {[status |-> "assert", mem |-> m]}
    ELSE LET first == self.data + k
             last == self.data + self.size
             middle == first + n
         IN  {[status |-> "ok", mem |-> rotate(m, first, middle, last)]}

\* ------------------------------------------------------------ actions
\* The record of a call: its name, the view i it is made on, and its
\* arguments (k: offset of start from begin(); p: pointer; n: byte count, or
\* the other view, or the serialized length; e, c: elSize and elCount).
OpRec(name, i, k, p, n, e, c) ==
    [name |-> name, i |-> i, k |-> k, p |-> p, n |-> n, e |-> e, c |-> c]

Idle == OpRec("idle", 1, 0, NULL, 0, 0, 0)
Snapshot == [mem |-> mem, v |-> v]
NoCall == [name |-> "none", i |-> 1, k |-> 0, n |-> 0, mem |-> <<>>, v |-> <<>>]
NoStream == [buf |-> <<>>, pos |-> 0]

\* The caller is between calls and the process has not been aborted.
CanCall == status = "ok" /\ op.name = "idle"

\* A call that replaces view i by w and touches nothing else.
Describe(rec, i, w) ==
    /\ CanCall
    /\ v' = [v EXCEPT ![i] = w]
    /\ op' = rec
    /\ old' = Snapshot
    /\ UNCHANGED <<mem, elementSize, is, status, older>>

\* memlink::memlink (void)
Construct(i) ==
    /\ Describe(OpRec("memlink", i, 0, NULL, 0, 0, 0), i, memlink_default)

\* memlink::memlink (const void* p, size_t n)
ConstructConst(i, p, n) ==
    /\ Describe(OpRec("memlink_const", i, 0, p, n, 0, 0), i, memlink_const(p, n))

\* memlink::memlink (void* p, size_t n)
ConstructPtr(i, p, n) ==
    /\ Describe(OpRec("memlink_ptr", i, 0, p, n, 0, 0), i, memlink_ptr(p, n))

\* memlink::memlink (const cmemlink& l)
ConstructFromCmemlink(i, l) ==
    /\ Describe(OpRec("memlink_from_cmemlink", i, 0, l.cdata, l.size, 0, 0),
                i, memlink_from_cmemlink(l))

\* memlink::memlink (const memlink& l), l being view j
ConstructFromMemlink(i, j) ==
    /\ Describe(OpRec("memlink_from_memlink", i, 0, NULL, j, 0, 0),
                i, memlink_from_memlink(v[j]))

\* memlink::operator= (const cmemlink& l)
AssignCmemlink(i, l) ==
    /\ Describe(OpRec("assign_cmemlink", i, 0, l.cdata, l.size, 0, 0),
                i, assign_cmemlink(v[i], l))

\* memlink::operator= (const memlink& l), l being view j
AssignMemlink(i, j) ==
    /\ Describe(OpRec("assign_memlink", i, 0, NULL, j, 0, 0),
                i, assign_memlink(v[i], v[j]))

\* memlink::swap (memlink& l), l being view j
Swap(i, j) ==
    /\ CanCall
    /\ v' = [[v EXCEPT ![i] = swap(v[i], v[j])[1]] EXCEPT ![j] = swap(v[i], v[j])[2]]
    /\ op' = OpRec("swap", i, 0, NULL, j, 0, 0)
    /\ old' = Snapshot
    /\ UNCHANGED <<mem, elementSize, is, status, older>>

\* memlink::link (void* p, size_t n)
Link(i, p, n) ==
    /\ Describe(OpRec("link", i, 0, p, n, 0, 0), i, link(v[i], p, n))

\* memlink::unlink (void)
Unlink(i) ==
    /\ Describe(OpRec("unlink", i, 0, NULL, 0, 0, 0), i, unlink(v[i]))

\* A call on view i that may write memory and leaves the descriptor alone.
Mutate(rec, outcomes) ==
    /\ CanCall
    /\ \E r \in outcomes : mem' = r.mem /\ status' = r.status
    /\ op' = rec
    /\ old' = Snapshot
    /\ UNCHANGED <<v, elementSize, is, older>>

\* memlink::read (istream& is), the stream holding the serialized block bytes
Read(i, bytes) ==
    /\ CanCall
    /\ \E r \in read(mem, v[i], StreamOf(bytes)) :
          /\ mem' = r.mem
          /\ status' = r.status
          /\ v' = [v EXCEPT ![i] = r.view]
          /\ is' = r.is
    /\ op' = OpRec("read", i, 0, NULL, Len(bytes), 0, 0)
    /\ old' = Snapshot
    /\ UNCHANGED <<elementSize, older>>

\* memlink::copy (iterator start, const void* p, size_t n), start = begin() + k
Copy(i, k, p, n) ==
    /\ Mutate(OpRec("copy", i, k, p, n, 0, 0), copy(mem, v[i], k, p, n))

\* memlink::fill (iterator start, const void* p, size_t elSize, size_t elCount)
Fill(i, k, p, elSize, elCount) ==
    /\ Mutate(OpRec("fill", i, k, p, 0, elSize, elCount),
              fill(mem, v[i], k, p, elSize, elCount))

\* memlink::insert (iterator start, size_t n), start = begin() + k
Insert(i, k, n) ==
    /\ Mutate(OpRec("insert", i, k, NULL, n, 0, 0), insert(mem, v[i], k, n))

\* memlink::erase (iterator start, size_t n), start = begin() + k
Erase(i, k, n) ==
    /\ Mutate(OpRec("erase", i, k, NULL, n, 0, 0), erase(mem, v[i], k, n))

\* The call returns to the caller, who keeps no record of it.
Return ==
    /\ status = "ok"
    /\ op.name # "idle"
    /\ op' = Idle
    /\ old' = Snapshot
    /\ older' = NoCall
    /\ is' = NoStream
    /\ UNCHANGED <<mem, v, elementSize, status>>

\* A first call, one of those named, returns to the caller, who keeps what it
\* was and what the memory and the views were when it began.
ReturnKeeping(names) ==
    /\ status = "ok"
    /\ op.name \in names
    /\ older = NoCall
    /\ op' = Idle
    /\ old' = Snapshot
    /\ older' = [name |-> op.name, i |-> op.i, k |-> op.k, n |-> op.n,
                 mem |-> old.mem, v |-> old.v]
    /\ is' = NoStream
    /\ UNCHANGED <<mem, v, elementSize, status>>

\* ----------------------------------------------------- specifications
\* Every byte of memory starts out different from every other, so that where
\* a byte ends up tells where it came from.
InitCommon ==
    /\ elementSize \in 1..MaxElementSize
    /\ is = NoStream
    /\ status = "ok"
    /\ op = Idle
    /\ old = Snapshot
    /\ older = NoCall

\* The views a caller can have constructed over a block of the heap.
Constructed ==
    {memlink_default} \cup {memlink_const(b[1], b[2]) : b \in Blocks}
                      \cup {memlink_ptr(b[1], b[2]) : b \in Blocks}

\* One constructed view, the other one empty.
Init ==
    /\ mem = [a \in Addr |-> a]
    /\ v \in [Views -> Constructed]
    /\ v[2] = memlink_default
    /\ InitCommon

\* The calls of a set S that the caller can make now: none while a call has
\* not returned, none once the process was aborted.
Calls(S) == IF CanCall THEN S ELSE {}

\* The calls of copy (start = begin() + k, p, n): n readable bytes at p, or the
\* null pointer; a destination that ends at most one byte past the heap.
CopyCalls ==
    {c \in (0..HeapSize) \X (Addr \cup {NULL}) \X (0..HeapSize) :
        /\ c[2] = NULL \/ c[2] + c[3] <= HeapSize + ScratchSize + 1
        /\ c[1] + c[3] <= HeapSize + 1}

\* The calls of fill (start = begin() + k, p, elSize, elCount): elSize readable
\* bytes at p; a destination that ends at most one byte past the heap.
FillCalls ==
    {c \in (0..HeapSize) \X Addr \X (0..HeapSize) \X (0..HeapSize) :
        /\ c[2] + c[3] <= HeapSize + ScratchSize + 1
        /\ c[1] + c[3] * c[4] <= HeapSize + 1}

\* The calls of insert and erase (start = begin() + k, n).
ShiftCalls == {c \in (0..HeapSize) \X (0..HeapSize) : c[1] + c[2] <= HeapSize + 1}

\* The serialized blocks a stream can hold: up to HeapSize + 1 bytes, each
\* different from the others and from every byte of the memory.
Blobs == {[j \in 1..len |-> HeapSize + ScratchSize + j] : len \in 0..(HeapSize + 1)}

\* Serialized blocks of zero bytes.
ZeroBlobs == {[j \in 1..len |-> 0] : len \in 0..HeapSize}

\* One call on the view, or a read and then a second call.
Next ==
    \/ \E c \in Calls(CopyCalls) : Copy(1, c[1], c[2], c[3])
    \/ \E c \in Calls(FillCalls) : Fill(1, c[1], c[2], c[3], c[4])
    \/ \E c \in Calls(ShiftCalls) : Insert(1, c[1], c[2])
    \/ \E c \in Calls(ShiftCalls) : Erase(1, c[1], c[2])
    \/ \E bytes \in Calls(Blobs) : Read(1, bytes)
    \/ ReturnKeeping({"read"})

Spec == Init /\ [][Next]_vars

\* An insert or erase, and then a second one.
NextShift ==
    \/ \E c \in Calls(ShiftCalls) : Insert(1, c[1], c[2])
    \/ \E c \in Calls(ShiftCalls) : Erase(1, c[1], c[2])
    \/ ReturnKeeping({"insert", "erase"})

SpecShift == Init /\ [][NextShift]_vars

\* Two default-constructed views over zeroed memory, then any number of
\* descriptor operations on either, and of reads of blocks of zero bytes.
InitView ==
    /\ mem = [a \in Addr |-> 0]
    /\ v = [i \in Views |-> memlink_default]
    /\ InitCommon

NextView ==
    \/ \E i \in Calls(Views) : Construct(i)
    \/ \E i \in Views, b \in Calls(Blocks) : ConstructConst(i, b[1], b[2])
    \/ \E i \in Views, b \in Calls(Blocks) : ConstructPtr(i, b[1], b[2])
    \/ \E i \in Views, l \in Calls(CmemlinkValues) : ConstructFromCmemlink(i, l)
    \/ \E i \in Calls(Views) : \E j \in Views \ {i} : ConstructFromMemlink(i, j)
    \/ \E i \in Views, l \in Calls(CmemlinkValues) : AssignCmemlink(i, l)
    \/ \E i \in Calls(Views), j \in Views : AssignMemlink(i, j)
    \/ \E i \in Calls(Views) : \E j \in Views \ {i} : Swap(i, j)
    \/ \E i \in Views, b \in Calls(Blocks) : Link(i, b[1], b[2])
    \/ \E i \in Calls(Views) : Unlink(i)
    \/ \E i \in Views, bytes \in Calls(ZeroBlobs) : Read(i, bytes)
    \/ Return

SpecView == InitView /\ [][NextView]_vars

\* ------------------------------------------------------------- claims
\* The view the call in op was made on, now and when the call began.
Self == v[op.i]
Was == old.v[op.i]

\* The calls that write or move bytes.
DataOps == {"copy", "fill", "insert", "erase", "read"}

\* C1: a copy (start, p, n) that satisfies the preconditions (n > 0, n a
\* multiple of elementSize, [start, start+n) inside the view, mutable pointer
\* and p non-null) and whose source [p, p+n) does not overlap the destination
\* leaves the destination byte-identical to the source, wherever the source
\* lies.  The code does not: a source at the address of m_Data is never copied.
C1_CopyMakesDestinationEqualSource ==
    (/\ op.name = "copy"
     /\ op.n > 0 /\ op.n % elementSize = 0
     /\ Was.data # NULL /\ op.p # NULL
     /\ op.k + op.n <= Was.size
     /\ ~Overlap(Was.data + op.k, op.p, op.n))
    => /\ status = "ok"
       /\ Load(mem, Was.data + op.k, op.n) = Load(old.mem, op.p, op.n)

\* C2: after insert (start, n) on a view of size S, start = begin() + k: the
\* size is still S, every byte below offset k is unchanged, the byte at offset
\* i + n is the old byte at offset i for every i in [k, S-n), and the old last
\* n bytes occupy offsets [k, k+n) in their original order.
C2_InsertShiftsRight ==
    (op.name = "insert" /\ status = "ok")
    => LET b == Was.cdata
           S == Was.size
       IN  /\ v = old.v
           /\ \A i \in 0..(op.k - 1) : mem[b + i] = old.mem[b + i]
           /\ \A i \in op.k..(S - op.n - 1) : mem[b + i + op.n] = old.mem[b + i]
           /\ \A j \in 0..(op.n - 1) : mem[b + op.k + j] = old.mem[b + S - op.n + j]

\* An insert that kept a prefix, shifted bytes and moved a tail of another length.
C2_Witness ==
    /\ op.name = "insert" /\ status = "ok"
    /\ op.k > 0 /\ op.n > 0 /\ Was.size - op.n - op.k > op.n
    /\ mem # old.mem

\* C3: erase is the inverse of insert: an insert (start, n) followed by an
\* erase (start, n), and an erase (start, n) followed by an insert (start, n),
\* leave every byte and the view's size as they were before the first call.
C3_EraseUndoesInsert ==
    (/\ op.name \in {"insert", "erase"} /\ status = "ok"
     /\ older.name \in {"insert", "erase"} /\ older.name # op.name
     /\ older.i = op.i /\ older.k = op.k /\ older.n = op.n)
    => mem = older.mem /\ v = older.v

\* An erase that undid an insert which had changed the memory.
C3_Witness ==
    /\ op.name = "erase" /\ status = "ok"
    /\ older.name = "insert" /\ older.k = op.k /\ older.n = op.n
    /\ op.n > 0 /\ old.mem # older.mem
    /\ mem = older.mem

\* C4: a read from a stream holding the length L and L payload bytes, into a
\* view of size S that it can write (the call returns): the view's first
\* min(L, S) bytes are the first min(L, S) payload bytes, no other byte of
\* memory is changed, and the view's size is min(L, S) afterwards.
C4_ReadFillsPrefix ==
    (op.name = "read" /\ status = "ok")
    => LET btr == Min(op.n, Was.size)
       IN  /\ Self = [Was EXCEPT !.size = btr]
           /\ \A j \in 1..btr : mem[Was.cdata + j - 1] = is.buf[SizeWidth + j]
           /\ \A a \in Addr :
                 (a < Was.data \/ a >= Was.data + btr) => mem[a] = old.mem[a]

\* A read of a block longer than the view, which it truncated.
C4_Witness ==
    /\ op.name = "read" /\ status = "ok"
    /\ Was.size > 1 /\ op.n > Was.size
    /\ mem # old.mem

\* C5: after a read that returns, the stream cursor is at the aligned position
\* that follows the length field and the full serialized length L, whatever
\* the size of the view was.
C5_CursorPastWholeBlock ==
    (op.name = "read" /\ status = "ok")
    => is.pos = Align(SizeWidth + op.n, StreamAlign)

\* A read that left bytes unread and a cursor that needed padding.
C5_Witness ==
    /\ op.name = "read" /\ status = "ok"
    /\ op.n > Was.size
    /\ (SizeWidth + op.n) % StreamAlign # 0
    /\ is.pos = Len(is.buf)

\* The bytes a call asks to write or move.
BytesAsked ==
    CASE op.name \in {"copy", "insert", "erase"} -> op.n
      [] op.name = "fill" -> op.e * op.c
      [] op.name = "read" -> Min(op.n, Was.size)
      [] OTHER -> 0

\* C6: every mutating call (copy, fill, insert, erase, read) asked to write or
\* move at least one byte in a view whose mutable pointer is null stops at an
\* assertion failure.  The code does not: read has no such assertion.
C6_NullViewAsserts ==
    (op.name \in DataOps /\ Was.data = NULL /\ BytesAsked > 0)
    => status = "assert"

\* C7: after fill (start, p, elSize, elCount) the elSize * elCount bytes from
\* start are elCount back-to-back copies of the pattern at p, every other byte
\* is unchanged, and for elSize = 1 the result is what the loop would give.
C7_FillRepeatsPattern ==
    (op.name = "fill" /\ status = "ok")
    => LET dst == Was.data + op.k
       IN  /\ v = old.v
           /\ \A j \in 0..(op.e * op.c - 1) :
                 mem[dst + j] = old.mem[op.p + (j % op.e)]
           /\ \A a \in Addr :
                 (a < dst \/ a >= dst + op.e * op.c) => mem[a] = old.mem[a]
           /\ op.e = 1 => mem \in FillLoop({old.mem}, dst, op.p, 1, op.c)

\* A fill that wrote a pattern of several bytes several times.
C7_Witness ==
    /\ op.name = "fill" /\ status = "ok"
    /\ op.e > 1 /\ op.c > 1
    /\ mem # old.mem

\* C8: invariant I1: each view's mutable pointer is null or equal to the base
\* view's address; unlink gives null pointers and size 0; link (p, n) gives
\* base address = mutable pointer = p and size n; assignment from an immutable
\* view gives its address and size and a null mutable pointer.
C8_MutablePointerAliasesBase ==
    /\ \A i \in Views : v[i].data = NULL \/ v[i].data = v[i].cdata
    /\ op.name = "unlink" => Self = [cdata |-> NULL, size |-> 0, data |-> NULL]
    /\ op.name = "link" => Self = [cdata |-> op.p, size |-> op.n, data |-> op.p]
    /\ op.name = "assign_cmemlink"
          => Self = [cdata |-> op.p, size |-> op.n, data |-> NULL]

\* An immutable view was assigned to a view that could write another block.
C8_Witness ==
    /\ op.name = "assign_cmemlink"
    /\ Was.data # NULL /\ op.p # NULL /\ op.p # Was.data
    /\ Self.data = NULL

\* C9 as stated: fill on a view whose mutable pointer is null stops at an
\* assertion whenever elCount > 0 or elSize > 0.
C9_FillNullAssertsWhenEitherNonzero ==
    (op.name = "fill" /\ Was.data = NULL /\ (op.c > 0 \/ op.e > 0))
    => status = "assert"

\* C9 as amended: fill on a view whose mutable pointer is null stops at that
\* assertion when elCount > 0 and elSize > 0; when only one of them is nonzero
\* the call is in range and aligned, it returns and writes nothing.
C9_FillNullAssertsWhenBothNonzero ==
    (op.name = "fill" /\ Was.data = NULL)
    => /\ (op.c > 0 /\ op.e > 0) => status = "assert"
       /\ (/\ op.c = 0 \/ op.e = 0
           /\ op.k <= Was.size
           /\ op.e % elementSize = 0) => (status = "ok" /\ mem = old.mem)

\* A fill of at least one byte through a read-only view that holds bytes.
C9_Witness ==
    /\ op.name = "fill" /\ Was.data = NULL /\ Was.size > 0
    /\ op.c > 0 /\ op.e > 0 /\ op.k + op.e * op.c <= Was.size
    /\ op.e % elementSize = 0
    /\ status = "assert"

\* C10: across read, copy, fill, insert and erase calls the view's size never
\* increases: copy, fill, insert and erase leave size and pointers unchanged,
\* a read keeps the pointers and keeps or shrinks the size, and after a read of
\* a block shorter than the view a later read of a longer block leaves the
\* size that first read gave.
C10_SizeNeverGrows ==
    op.name \in DataOps
    => /\ Self.size <= Was.size
       /\ Self.cdata = Was.cdata /\ Self.data = Was.data
       /\ op.name # "read" => v = old.v
       /\ older.name = "read"
             => /\ Was.size = Min(older.n, older.v[op.i].size)
                /\ Self.size <= older.v[op.i].size
                /\ (op.name = "read" /\ status = "ok" /\ op.n >= older.n)
                      => Self.size = Was.size

\* A read of a short block, then a read of a longer one that stayed truncated.
C10_Witness ==
    /\ op.name = "read" /\ status = "ok"
    /\ older.name = "read" /\ older.n > 0 /\ older.n < older.v[op.i].size
    /\ op.n > older.n
    /\ Self.size = older.n

=============================================================================
